---------------------------- MODULE Spec2Model ----------------------------
(***************************************************************************)
(* Model of src/src/logistic_regression.py (gradient-descent logistic      *)
(* regression) and of the run loop of                                      *)
(* src/docs/samples/Microsoft.ML.Samples.OneDal/run_bench.py.              *)
(*                                                                         *)
(* Numbers.  The program computes in IEEE doubles.  The model computes in  *)
(* fixed point with Scale units per 1.0 and rounds every quotient to the   *)
(* nearest unit, so it is a float of very low precision: the logistic      *)
(* function saturates to exactly 0 or 1 for scores of modest size, as the  *)
(* double does for large ones, and log(0) is minus infinity, so the loss   *)
(* can be inf or nan exactly as numpy produces them.                       *)
(*   feature values, labels : integers (their real value)                  *)
(*   theta, z, h, gradient, alpha, finite loss : fixed point               *)
(***************************************************************************)
EXTENDS Integers, Sequences, FiniteSets, TLC

VARIABLES
    \* ---- logistic_reg, one record of locals per invocation ----
    pc,              \* position of each invocation
    X, y,            \* arguments: feature matrix (sequence of rows), labels
    alpha,           \* argument: learning rate (fixed point)
    max_iterations,  \* argument
    converged, iterations, theta, J,   \* locals of logistic_reg
    ret,             \* the value returned (<<>> before the return)
    stdout,          \* what the invocation has printed, in order
    \* ---- history of an invocation (not read by any action's guard) ----
    updates,         \* number of executions of line 45
    trace,           \* theta after each execution of line 45
    overlapped,      \* the other invocation was running when this one was called
    \* ---- predict_prob ----
    grid, probs, predStatus, predLog, predCount,
    \* ---- run_bench.py ----
    bpc, caseIdx, runIdx, os_environ, env_copy, calls, nResults

argVars   == <<X, y, alpha, max_iterations, overlapped>>
trainVars == <<pc, argVars, converged, iterations, theta, J, ret, stdout, updates, trace>>
predVars  == <<grid, probs, predStatus, predLog, predCount>>
benchVars == <<bpc, caseIdx, runIdx, os_environ, env_copy, calls, nResults>>
vars      == <<trainVars, predVars, benchVars>>

Proc == {1, 2}

(***************************************************************************)
(* Bounds of the model.                                                    *)
(***************************************************************************)
MaxIter == 3                 \* largest max_iterations an invocation is given
IterCap == MaxIter + 1       \* a run that never returns is followed this far
MaxPredict == 3              \* calls of predict_prob that are followed

(***************************************************************************)
(* Fixed-point arithmetic.                                                 *)
(***************************************************************************)
Scale == 16

RoundDiv(a, b) == (2 * a + b) \div (2 * b)

RECURSIVE SumTo(_, _)
SumTo(f, n) == IF n = 0 THEN 0 ELSE f[n] + SumTo(f, n - 1)

\* an array as it is held in memory: its first n elements, each computed once
RECURSIVE Stored(_, _)
Stored(v, n) == IF n = 0 THEN <<>> ELSE Append(Stored(v, n - 1), v[n])

NumRows(M) == Len(M)
NumCols(M) == Len(M[1])

\* np.zeros(n)
Zeros(n) == [j \in 1..n |-> 0]

\* round(Scale / (1 + exp(-z / Scale))) for z = 0, 1, ... until it rounds to Scale
SigTable ==
    <<8, 8, 8, 9, 9, 9, 9, 10, 10, 10, 10, 11, 11, 11, 11, 11, 12, 12, 12, 12, 12,
      13, 13, 13, 13, 13, 13, 14, 14, 14, 14, 14, 14, 14, 14, 14, 14,
      15, 15, 15, 15, 15, 15, 15, 15, 15, 15, 15, 15, 15, 15, 15, 15, 15, 15>>

\* round(Scale * ln(k / Scale)) for k = 1 .. Scale
LogTable == <<-44, -33, -27, -22, -19, -16, -13, -11, -9, -8, -6, -5, -3, -2, -1, 0>>

\* sigmoid_function on one score
Sigmoid1(z) ==
    IF z >= Len(SigTable) THEN Scale
    ELSE IF z <= -Len(SigTable) THEN 0
    ELSE IF z >= 0 THEN SigTable[z + 1]
    ELSE Scale - SigTable[(-z) + 1]

\* sigmoid_function, elementwise
sigmoid_function(z) == [i \in 1..Len(z) |-> Sigmoid1(z[i])]

(***************************************************************************)
(* numpy's shape rules for the operations the program uses.                *)
(***************************************************************************)
\* np.dot(M, v), M 2-D and v 1-D: defined when the columns of M match len(v)
DotOK(M, v) == NumCols(M) = Len(v)
Dot(M, v) ==
    [i \in 1..NumRows(M) |->
        SumTo([j \in 1..NumCols(M) |-> M[i][j] * v[j]], NumCols(M))]

\* np.dot(M.T, v): defined when the rows of M match len(v)
DotTOK(M, v) == NumRows(M) = Len(v)
DotT(M, v) ==
    [j \in 1..NumCols(M) |->
        SumTo([i \in 1..NumRows(M) |-> M[i][j] * v[i]], NumRows(M))]

\* elementwise a op b without broadcasting
BroadcastableStrict(a, b) == Len(a) = Len(b)

\* elementwise a op b on 1-D arrays: equal lengths, or one of them of length 1
Broadcastable(a, b) == Len(a) = Len(b) \/ Len(a) = 1 \/ Len(b) = 1
BLen(a, b) == IF Len(a) = 1 THEN Len(b) ELSE Len(a)
At(a, i) == IF Len(a) = 1 THEN a[1] ELSE a[i]

(***************************************************************************)
(* The loss.  A value is finite (fixed point), +inf or nan.                *)
(***************************************************************************)
Fin(v) == [kind |-> "fin", v |-> v]
Inf    == [kind |-> "inf", v |-> 0]
NaN    == [kind |-> "nan", v |-> 0]
\* no value: J before line 51, the value part of a printed line without one
Unset  == [kind |-> "unset", v |-> 0]

\* -y*log(h) - (1-y)*log(1-h) for one sample, y in {0, 1}:
\*   h = 0:     log(h) = -inf;   y = 0 gives -0 * -inf = nan,  y = 1 gives +inf
\*   h = Scale: log(1-h) = -inf; y = 1 gives  0 * -inf = nan,  y = 0 gives +inf
CostTerm(hi, yi) ==
    IF hi = 0 THEN (IF yi = 0 THEN NaN ELSE Inf)
    ELSE IF hi = Scale THEN (IF yi = 1 THEN NaN ELSE Inf)
    ELSE Fin(- yi * LogTable[hi] - (1 - yi) * LogTable[Scale - hi])

\* cost_function(h, y): the mean of the terms
cost_function(h, yy) ==
    LET n == BLen(h, yy)
        t == [i \in 1..n |-> CostTerm(At(h, i), At(yy, i))]
    IN  IF \E i \in 1..n : t[i] = NaN THEN NaN
        ELSE IF \E i \in 1..n : t[i] = Inf THEN Inf
        ELSE Fin(RoundDiv(SumTo([i \in 1..n |-> t[i].v], n), n))

(***************************************************************************)
(* One pass of lines 42-45.  Each line's array is computed once and then   *)
(* used by the next line: CHOOSE r \in {F(v) : v \in {e}} : TRUE is F(e)    *)
(* with e computed once and held in v.                                     *)
(***************************************************************************)
\* lines 42-43 (and 47-48): z, then h
Hypothesis(XX, th) ==
    CHOOSE h \in { Stored(sigmoid_function(z), Len(z)) :
                      z \in {Stored(Dot(XX, th), NumRows(XX))} } : TRUE

\* h - y of line 44, the labels brought to fixed point
Residual(h, yy) ==
    Stored([i \in 1..BLen(h, yy) |-> At(h, i) - Scale * At(yy, i)], BLen(h, yy))

\* lines 42-44 raise no ValueError
GradientOK(XX, yy, th) ==
    /\ DotOK(XX, th)
    /\ \E h \in {Hypothesis(XX, th)} :
          /\ Broadcastable(h, yy)
          /\ \E r \in {Residual(h, yy)} : DotTOK(XX, r)

\* line 44: np.dot(X.T, (h - y)) / y.size
Gradient(XX, yy, th) ==
    CHOOSE g \in
        { Stored([j \in 1..NumCols(XX) |-> RoundDiv(s[j], Len(yy))], NumCols(XX)) :
            s \in { Stored(DotT(XX, r), NumCols(XX)) :
                      r \in { Residual(h, yy) : h \in {Hypothesis(XX, th)} } } } : TRUE

\* line 45: theta - alpha * gradient
Descend(a, XX, yy, th) ==
    CHOOSE t \in
        { Stored([j \in 1..Len(g) |-> th[j] - RoundDiv(a * g[j], Scale)], Len(g)) :
            g \in {Gradient(XX, yy, th)} } : TRUE

\* lines 47-49: the loss of the weights th
Loss(XX, yy, th) ==
    CHOOSE e \in { cost_function(h, yy) : h \in {Hypothesis(XX, th)} } : TRUE

\* line 38 with the rows in the place of the columns
InitThetaRows(XX) == Zeros(NumRows(XX))

\* line 38
InitTheta(XX) == Zeros(NumCols(XX))

\* line 41: the position after the while test
LoopTest(conv) == IF conv THEN "return" ELSE "update"

\* line 56 with > or >= in the place of ==
MaxReachedGreater(its, mx) == its > mx
MaxReachedAtLeast(its, mx) == its >= mx

\* line 56
MaxReached(its, mx) == its = mx

(***************************************************************************)
(* logistic_reg as a function: the weights after k passes of the loop      *)
(* body, and the value the call returns.                                   *)
(***************************************************************************)
RECURSIVE ThetaAfter(_, _, _, _)
ThetaAfter(a, XX, yy, k) ==
    IF k = 0 THEN InitTheta(XX)
    ELSE CHOOSE t \in { Descend(a, XX, yy, prev) :
                           prev \in {ThetaAfter(a, XX, yy, k - 1)} } : TRUE

(***************************************************************************)
(* Inputs.                                                                 *)
(***************************************************************************)
Data(XX, yy) == [X |-> XX, y |-> yy]

\* well-shaped data sets: len(y) = rows of X
Datasets ==
    { Data(<< <<1>>, <<2>> >>, <<0, 1>>),                             \* one feature
      Data(<< <<0, 0>>, <<0, 1>>, <<1, 0>>, <<1, 1>> >>, <<0, 0, 0, 1>>),
      Data(<< <<4>>, <<-4>>, <<1>> >>, <<1, 0, 1>>),                  \* saturates: nan
      Data(<< <<-6>>, <<-5>>, <<-1>> >>, <<1, 0, 1>>),                \* overshoots: inf
      Data(<< <<1, 2>> >>, <<1>>) }                                   \* one label

\* the data sets given to concurrent invocations: one and two features,
\* finite and non-finite losses
ConcDatasets == {d \in Datasets : NumRows(d.X) # 4 /\ d.X[1][1] # 4}

\* data sets whose label vector disagrees with the rows of X
MisshapenDatasets ==
    { Data(<< <<1>>, <<2>> >>, <<0, 1, 1>>),
      Data(<< <<1, 1>>, <<2, 0>>, <<0, 1>> >>, <<1>>),
      Data(<< <<1, 2>> >>, <<1, 0>>),
      Data(<< <<1>>, <<2>>, <<3>> >>, <<0, 1>>) }

Alphas == {8, 16}                    \* 0.5 and 1.0

MaxIters == (-1)..MaxIter

Grids ==
    { << <<1>>, <<3>> >>, << <<-2>> >>,
      << <<0, 1>>, <<2, 2>> >>, << <<1, -1>> >> }


(***************************************************************************)
(* logistic_reg, lines 35-60.                                              *)
(***************************************************************************)
\* the call: the arguments are bound (line 35)
Call(p, DS, MI) ==
    /\ pc[p] = "idle"
    /\ \E d \in DS, a \in Alphas, m \in MI :
          /\ X' = [X EXCEPT ![p] = d.X]
          /\ y' = [y EXCEPT ![p] = d.y]
          /\ alpha' = [alpha EXCEPT ![p] = a]
          /\ max_iterations' = [max_iterations EXCEPT ![p] = m]
    /\ overlapped' = [overlapped EXCEPT ![p] =
                         \E q \in Proc \ {p} : pc[q] \notin {"idle", "done", "raised"}]
    /\ pc' = [pc EXCEPT ![p] = "enter"]
    /\ UNCHANGED <<converged, iterations, theta, J, ret, stdout, updates, trace>>
    /\ UNCHANGED <<predVars, benchVars>>

\* lines 36-41 with weights that start at a value drawn at random
EnterRandom(p) ==
    /\ pc[p] = "enter"
    /\ converged' = [converged EXCEPT ![p] = FALSE]
    /\ iterations' = [iterations EXCEPT ![p] = 0]
    /\ \E w \in {0, 1} :
          theta' = [theta EXCEPT ![p] = [j \in 1..NumCols(X[p]) |-> w]]
    /\ pc' = [pc EXCEPT ![p] = LoopTest(FALSE)]
    /\ UNCHANGED <<argVars, J, ret, stdout, updates, trace>>
    /\ UNCHANGED <<predVars, benchVars>>

\* lines 36-41: the locals, and the first while test
Enter(p) ==
    /\ pc[p] = "enter"
    /\ converged' = [converged EXCEPT ![p] = FALSE]
    /\ iterations' = [iterations EXCEPT ![p] = 0]
    /\ theta' = [theta EXCEPT ![p] = InitTheta(X[p])]
    /\ pc' = [pc EXCEPT ![p] = LoopTest(FALSE)]
    /\ UNCHANGED <<argVars, J, ret, stdout, updates, trace>>
    /\ UNCHANGED <<predVars, benchVars>>

\* lines 42-45: gradient and weight update; numpy raises ValueError on shapes
\* it cannot combine, and the exception leaves logistic_reg
Update(p) ==
    /\ pc[p] = "update"
    /\ updates[p] < IterCap
    /\ IF GradientOK(X[p], y[p], theta[p])
       THEN /\ theta' = [theta EXCEPT ![p] = Descend(alpha[p], X[p], y[p], theta[p])]
            /\ updates' = [updates EXCEPT ![p] = @ + 1]
            /\ trace' = [trace EXCEPT ![p] = Append(@, theta'[p])]
            /\ pc' = [pc EXCEPT ![p] = "emit"]
       ELSE /\ pc' = [pc EXCEPT ![p] = "raised"]
            /\ UNCHANGED <<theta, updates, trace>>
    /\ UNCHANGED <<argVars, converged, iterations, J, ret, stdout>>
    /\ UNCHANGED <<predVars, benchVars>>

\* lines 47-51 without the recomputation of lines 47-48: the loss of the h the
\* gradient was computed from
EmitStale(p) ==
    /\ pc[p] = "emit"
    /\ LET before == IF updates[p] = 1 THEN InitTheta(X[p])
                                       ELSE trace[p][updates[p] - 1]
           e == Loss(X[p], y[p], before)
       IN  /\ stdout' = [stdout EXCEPT ![p] = Append(@, [line |-> "J=", e |-> e])]
           /\ J' = [J EXCEPT ![p] = e]
    /\ pc' = [pc EXCEPT ![p] = "incr"]
    /\ UNCHANGED <<argVars, converged, iterations, theta, ret,
                   updates, trace>>
    /\ UNCHANGED <<predVars, benchVars>>

\* lines 47-51: the loss of the updated weights is computed and printed
Emit(p) ==
    /\ pc[p] = "emit"
    /\ LET e == Loss(X[p], y[p], theta[p])
       IN  /\ stdout' = [stdout EXCEPT ![p] = Append(@, [line |-> "J=", e |-> e])]
           /\ J' = [J EXCEPT ![p] = e]
    /\ pc' = [pc EXCEPT ![p] = "incr"]
    /\ UNCHANGED <<argVars, converged, iterations, theta, ret,
                   updates, trace>>
    /\ UNCHANGED <<predVars, benchVars>>

\* line 53 on a counter kept in a module-level global, one for all invocations
IncrShared(p) ==
    /\ pc[p] = "incr"
    /\ iterations' = [q \in Proc |-> iterations[q] + 1]
    /\ pc' = [pc EXCEPT ![p] = "check"]
    /\ UNCHANGED <<argVars, converged, theta, J, ret, stdout,
                   updates, trace>>
    /\ UNCHANGED <<predVars, benchVars>>

\* line 53
Incr(p) ==
    /\ pc[p] = "incr"
    /\ iterations' = [iterations EXCEPT ![p] = @ + 1]
    /\ pc' = [pc EXCEPT ![p] = "check"]
    /\ UNCHANGED <<argVars, converged, theta, J, ret, stdout,
                   updates, trace>>
    /\ UNCHANGED <<predVars, benchVars>>

\* lines 56-58 with the loop also left when the loss is not finite
CheckStopOnNonFinite(p) ==
    /\ pc[p] = "check"
    /\ IF MaxReached(iterations[p], max_iterations[p]) \/ J[p].kind \in {"nan", "inf"}
       THEN /\ stdout' = [stdout EXCEPT ![p] =
                             Append(@, [line |-> "Maximum iterations exceeded!", e |-> Unset])]
            /\ converged' = [converged EXCEPT ![p] = TRUE]
       ELSE UNCHANGED <<stdout, converged>>
    /\ pc' = [pc EXCEPT ![p] = LoopTest(converged'[p])]
    /\ UNCHANGED <<argVars, iterations, theta, J, ret, updates, trace>>
    /\ UNCHANGED <<predVars, benchVars>>

\* lines 56-58, then the while test of line 41
Check(p) ==
    /\ pc[p] = "check"
    /\ IF MaxReached(iterations[p], max_iterations[p])
       THEN /\ stdout' = [stdout EXCEPT ![p] =
                             Append(@, [line |-> "Maximum iterations exceeded!", e |-> Unset])]
            /\ converged' = [converged EXCEPT ![p] = TRUE]
       ELSE UNCHANGED <<stdout, converged>>
    /\ pc' = [pc EXCEPT ![p] = LoopTest(converged'[p])]
    /\ UNCHANGED <<argVars, iterations, theta, J, ret, updates, trace>>
    /\ UNCHANGED <<predVars, benchVars>>

\* line 60
Return(p) ==
    /\ pc[p] = "return"
    /\ ret' = [ret EXCEPT ![p] = theta[p]]
    /\ pc' = [pc EXCEPT ![p] = "done"]
    /\ UNCHANGED <<argVars, converged, iterations, theta, J, stdout,
                   updates, trace>>
    /\ UNCHANGED <<predVars, benchVars>>

\* the steps of one running invocation
Run(p) == Enter(p) \/ Update(p) \/ Emit(p) \/ Incr(p) \/ Check(p) \/ Return(p)

(***************************************************************************)
(* predict_prob, lines 80-81: closes over the weights logistic_reg         *)
(* returned.  np.dot raises ValueError when the columns of the matrix do   *)
(* not match the weights; the exception ends the script.                   *)
(***************************************************************************)
PredictProb(G, th) == Hypothesis(G, th)

\* predict_prob rescaling the weights it closes over, in place
PredictInPlace(p, GS) ==
    /\ pc[p] = "done"
    /\ predStatus[p] # "raised"
    /\ predCount[p] < MaxPredict
    /\ predCount' = [predCount EXCEPT ![p] = @ + 1]
    /\ \E G \in GS :
          /\ grid' = [grid EXCEPT ![p] = G]
          /\ IF DotOK(G, ret[p])
             THEN /\ probs' = [probs EXCEPT ![p] = PredictProb(G, ret[p])]
                  /\ predStatus' = [predStatus EXCEPT ![p] = "ok"]
                  /\ predLog' = [predLog EXCEPT ![p] = @ \cup {[G |-> G, r |-> probs'[p]]}]
                  /\ ret' = [ret EXCEPT ![p] = [j \in 1..Len(@) |-> 2 * @[j]]]
             ELSE /\ predStatus' = [predStatus EXCEPT ![p] = "raised"]
                  /\ UNCHANGED <<probs, predLog, ret>>
    /\ UNCHANGED <<pc, argVars, converged, iterations, theta, J, stdout, updates, trace>>
    /\ UNCHANGED benchVars

Predict(p, GS) ==
    /\ pc[p] = "done"
    /\ predStatus[p] # "raised"
    /\ predCount[p] < MaxPredict
    /\ predCount' = [predCount EXCEPT ![p] = @ + 1]
    /\ \E G \in GS :
          /\ grid' = [grid EXCEPT ![p] = G]
          /\ IF DotOK(G, ret[p])
             THEN /\ probs' = [probs EXCEPT ![p] = PredictProb(G, ret[p])]
                  /\ predStatus' = [predStatus EXCEPT ![p] = "ok"]
                  /\ predLog' = [predLog EXCEPT ![p] = @ \cup {[G |-> G, r |-> probs'[p]]}]
             ELSE /\ predStatus' = [predStatus EXCEPT ![p] = "raised"]
                  /\ UNCHANGED <<probs, predLog>>
    /\ UNCHANGED <<trainVars, benchVars>>

\* the matrices of Grids whose columns match the weights of invocation p
FittingGrids(p) == {G \in Grids : NumCols(G) = Len(ret[p])}

(***************************************************************************)
(* Initial state: no invocation has been called, the benchmark has not     *)
(* started.                                                                *)
(***************************************************************************)
TrainInit ==
    /\ pc = [p \in Proc |-> "idle"]
    /\ X = [p \in Proc |-> <<>>]
    /\ y = [p \in Proc |-> <<>>]
    /\ alpha = [p \in Proc |-> 0]
    /\ max_iterations = [p \in Proc |-> 0]
    /\ converged = [p \in Proc |-> FALSE]
    /\ iterations = [p \in Proc |-> 0]
    /\ theta = [p \in Proc |-> <<>>]
    /\ J = [p \in Proc |-> Unset]
    /\ ret = [p \in Proc |-> <<>>]
    /\ stdout = [p \in Proc |-> <<>>]
    /\ updates = [p \in Proc |-> 0]
    /\ trace = [p \in Proc |-> <<>>]
    /\ grid = [p \in Proc |-> <<>>]
    /\ probs = [p \in Proc |-> <<>>]
    /\ predStatus = [p \in Proc |-> "none"]
    /\ predLog = [p \in Proc |-> {}]
    /\ predCount = [p \in Proc |-> 0]
    /\ overlapped = [p \in Proc |-> FALSE]

BenchIdle ==
    /\ bpc = "idle"
    /\ caseIdx = 0
    /\ runIdx = 0
    /\ os_environ = "unset"
    /\ env_copy = "unset"
    /\ calls = <<>>
    /\ nResults = 0

Init == TrainInit /\ BenchIdle

\* the script of logistic_regression.py: one training run, then predictions
Next ==
    \/ Call(1, Datasets, MaxIters)
    \/ Run(1)
    \/ Predict(1, FittingGrids(1))

Spec == Init /\ [][Next]_vars

\* the interpreter keeps executing a running invocation
FairSpec == Init /\ [][Next]_vars /\ WF_vars(Run(1))


\* two invocations of logistic_reg, each with its own arguments and locals,
\* their steps interleaved in any order
ConcNext == \E p \in Proc : Call(p, ConcDatasets, 1..MaxIter) \/ Run(p)

ConcSpec == Init /\ [][ConcNext]_vars

\* one training run and predictions with no precondition on the shapes
ShapeNext ==
    \/ Call(1, Datasets \cup MisshapenDatasets, 1..MaxIter)
    \/ Run(1)
    \/ Predict(1, Grids)

ShapeSpec == Init /\ [][ShapeNext]_vars

(***************************************************************************)
(* run_bench.py.  An environment is modelled by its value of MLNET_BACKEND *)
(* ("unset" when the variable is absent); the external runtime by the      *)
(* record of each invocation and by whether pandas can read what it wrote. *)
(***************************************************************************)
\* lines 94-98
n_samples_range == <<5000, 10000>>
n_features_range == <<8, 64>>
n_trees_range == <<100>>
n_leaves_range == <<128>>
n_runs == 5
\* line 101
task_types == <<"binary", "regression">>

\* the nested loops of lines 101-105, flattened in their order of execution
NumCases ==
    Len(task_types) * Len(n_samples_range) * Len(n_features_range)
        * Len(n_trees_range) * Len(n_leaves_range)

Pick(seq, k, stride) == seq[((k \div stride) % Len(seq)) + 1]

CaseAt(c) ==
    LET k  == c - 1
        s4 == Len(n_leaves_range)
        s3 == s4 * Len(n_trees_range)
        s2 == s3 * Len(n_features_range)
        s1 == s2 * Len(n_samples_range)
    IN  [task_type  |-> Pick(task_types, k, s1),
         n_samples  |-> Pick(n_samples_range, k, s2),
         n_features |-> Pick(n_features_range, k, s3),
         n_trees    |-> Pick(n_trees_range, k, s4),
         n_leaves   |-> Pick(n_leaves_range, k, 1)]

\* what the process environment may hold for MLNET_BACKEND when the script starts
EnvValues == {"unset", "ONEDAL", "OTHER"}

\* read_output_from_command (lines 21-24) with the command of lines 62 and 70
Invocation(c, i, env) == [case |-> CaseAt(c), caseIdx |-> c, run |-> i, MLNET_BACKEND |-> env]

BenchStart ==
    /\ bpc = "loop"
    /\ caseIdx = 0
    /\ runIdx = 0
    /\ os_environ \in EnvValues
    /\ env_copy = "unset"
    /\ calls = <<>>
    /\ nResults = 0

\* lines 101-106 and 28-59: the next case, or lines 112-113 after the last
NextCase ==
    /\ bpc = "loop"
    /\ IF caseIdx < NumCases
       THEN /\ caseIdx' = caseIdx + 1
            /\ runIdx' = 0
            /\ bpc' = "for"
       ELSE /\ bpc' = "done"
            /\ UNCHANGED <<caseIdx, runIdx>>
    /\ UNCHANGED <<os_environ, env_copy, calls, nResults>>
    /\ UNCHANGED <<trainVars, predVars>>

\* lines 60-61: the next repetition takes a copy of the process environment;
\* after the last, lines 85-92 and 107-110 add the case's row to the result
NextRun ==
    /\ bpc = "for"
    /\ IF runIdx < n_runs
       THEN /\ runIdx' = runIdx + 1
            /\ env_copy' = os_environ
            /\ bpc' = "default"
            /\ UNCHANGED nResults
       ELSE /\ nResults' = nResults + 1
            /\ bpc' = "loop"
            /\ UNCHANGED <<runIdx, env_copy>>
    /\ UNCHANGED <<caseIdx, os_environ, calls>>
    /\ UNCHANGED <<trainVars, predVars>>

\* lines 62-67: the runtime is run with the copy; pd.read_csv and merge raise
\* on output they cannot use, which ends the script
RunDefault ==
    /\ bpc = "default"
    /\ calls' = Append(calls, Invocation(caseIdx, runIdx, env_copy))
    /\ \E readable \in BOOLEAN : bpc' = IF readable THEN "setenv" ELSE "crashed"
    /\ UNCHANGED <<caseIdx, runIdx, os_environ, env_copy, nResults>>
    /\ UNCHANGED <<trainVars, predVars>>

\* line 69 when env_copy is os.environ itself and not a copy of it
SetBackendAliased ==
    /\ bpc = "setenv"
    /\ env_copy' = "ONEDAL"
    /\ os_environ' = "ONEDAL"
    /\ bpc' = "optimized"
    /\ UNCHANGED <<caseIdx, runIdx, calls, nResults>>
    /\ UNCHANGED <<trainVars, predVars>>

\* line 69
SetBackend ==
    /\ bpc = "setenv"
    /\ env_copy' = "ONEDAL"
    /\ bpc' = "optimized"
    /\ UNCHANGED <<caseIdx, runIdx, os_environ, calls, nResults>>
    /\ UNCHANGED <<trainVars, predVars>>

\* lines 70-83
RunOptimized ==
    /\ bpc = "optimized"
    /\ calls' = Append(calls, Invocation(caseIdx, runIdx, env_copy))
    /\ \E readable \in BOOLEAN : bpc' = IF readable THEN "for" ELSE "crashed"
    /\ UNCHANGED <<caseIdx, runIdx, os_environ, env_copy, nResults>>
    /\ UNCHANGED <<trainVars, predVars>>

BenchInit == TrainInit /\ BenchStart

BenchNext == NextCase \/ NextRun \/ RunDefault \/ SetBackend \/ RunOptimized

BenchSpec == BenchInit /\ [][BenchNext]_vars


(***************************************************************************)
(* Properties of logistic_reg.                                             *)
(***************************************************************************)
Called(p) == pc[p] # "idle"
\* the locals of lines 36-38 exist
Entered(p) == pc[p] \notin {"idle", "enter"}
Returned(p) == pc[p] = "done"

IsLossLine(l) == l.line = "J="
LossLines(p) == SelectSeq(stdout[p], IsLossLine)
NonFinite(e) == e.kind \in {"nan", "inf"}

\* C1: a call with max_iterations >= 1 terminates, after exactly
\* max_iterations weight updates: never more than max_iterations updates,
\* no update once the counter has reached max_iterations, exactly
\* max_iterations of them at the return, and the return is reached.
C1_TerminatesAfterMaxUpdates ==
    /\ [](\A p \in Proc : (Called(p) /\ max_iterations[p] >= 1) =>
             /\ updates[p] <= max_iterations[p]
             /\ (pc[p] = "update" => iterations[p] < max_iterations[p])
             /\ (pc[p] \in {"return", "done"} => updates[p] = max_iterations[p]))
    /\ \A p \in Proc :
          [](pc[p] = "enter" /\ max_iterations[p] >= 1 => <>Returned(p))

C1_Witness ==
    /\ Returned(1)
    /\ max_iterations[1] = MaxIter
    /\ updates[1] = MaxIter

\* C2: from the initialisation of the weights to the return, the weight
\* vector (and every weight vector there has been, and the one returned) is
\* as long as the feature matrix has columns.
C2_ThetaLength ==
    \A p \in Proc : Entered(p) =>
        /\ Len(theta[p]) = NumCols(X[p])
        /\ \A k \in 1..Len(trace[p]) : Len(trace[p][k]) = NumCols(X[p])
        /\ (Returned(p) => Len(ret[p]) = NumCols(X[p]))

\* a run on one feature has updated and returned a vector of length 1
C2_Witness ==
    /\ Returned(1)
    /\ NumCols(X[1]) = 1
    /\ NumRows(X[1]) > 1
    /\ updates[1] >= 1
    /\ Len(ret[1]) = 1

SameArgs(p, q) ==
    /\ X[p] = X[q]
    /\ y[p] = y[q]
    /\ alpha[p] = alpha[q]
    /\ max_iterations[p] = max_iterations[q]

IsPrefix(a, b) == Len(a) <= Len(b) /\ \A k \in 1..Len(a) : a[k] = b[k]

\* C3: two runs given the same X, y, learning rate and max_iterations pass
\* through the same sequence of weight vectors and return the same vector.
C3_Deterministic ==
    \A p, q \in Proc : (Entered(p) /\ Entered(q) /\ SameArgs(p, q)) =>
        /\ IsPrefix(trace[p], trace[q]) \/ IsPrefix(trace[q], trace[p])
        /\ (updates[p] = updates[q] => theta[p] = theta[q])
        /\ (Returned(p) /\ Returned(q) => ret[p] = ret[q] /\ trace[p] = trace[q])

\* both runs have returned after MaxIter updates that moved the weights
C3_Witness ==
    /\ Returned(1) /\ Returned(2)
    /\ SameArgs(1, 2)
    /\ max_iterations[1] = MaxIter
    /\ ret[1] = ret[2]
    /\ ret[1] # InitTheta(X[1])
    /\ overlapped[2]

\* C4: one loss line per iteration, max_iterations of them in all; the k-th
\* is the loss of the weights after the k-th update, and it is printed
\* before the counter is incremented.
C4_OneLossPerIteration ==
    \A p \in Proc : Called(p) =>
        LET L == LossLines(p)
        IN  /\ Len(L) = IF pc[p] = "emit" THEN updates[p] - 1 ELSE updates[p]
            /\ Entered(p) => Len(L) = IF pc[p] = "incr" THEN iterations[p] + 1
                                                      ELSE iterations[p]
            /\ \A k \in 1..Len(L) : L[k].e = Loss(X[p], y[p], trace[p][k])
            /\ (pc[p] \in {"return", "done"} => Len(L) = max_iterations[p])

\* a returned run whose first loss differs from the loss of the weights the
\* first gradient was computed from
C4_Witness ==
    /\ Returned(1)
    /\ max_iterations[1] = MaxIter
    /\ Len(LossLines(1)) = MaxIter
    /\ LossLines(1)[1].e # Loss(X[1], y[1], InitTheta(X[1]))

\* C5: the loss decides nothing: whatever it is, non-finite included, the
\* weights are those of the pure iteration (which does not read the loss),
\* the loop is left only with the counter at max_iterations, and a run that
\* returns has made max_iterations updates.
C5_LossDecidesNothing ==
    \A p \in Proc : Entered(p) =>
        /\ theta[p] = ThetaAfter(alpha[p], X[p], y[p], updates[p])
        /\ \A k \in 1..Len(trace[p]) :
              trace[p][k] = ThetaAfter(alpha[p], X[p], y[p], k)
        /\ (converged[p] => iterations[p] = max_iterations[p])
        /\ (pc[p] \in {"return", "done"} =>
              /\ converged[p]
              /\ updates[p] = max_iterations[p])

\* a run has returned although a loss before its last was not finite, and
\* the update after that loss changed the weights
C5_Witness ==
    /\ Returned(1)
    /\ \E k \in 1..(Len(LossLines(1)) - 1) :
          /\ NonFinite(LossLines(1)[k].e)
          /\ trace[1][k + 1] # trace[1][k]


LabelMismatch(p) == NumRows(X[p]) # Len(y[p])
\* the first pass of lines 42-44 has been attempted
Attempted(p) == pc[p] \in {"emit", "incr", "check", "return", "done", "raised"}
Predicted(p) == predStatus[p] # "none"
WeightMismatch(p) == NumCols(grid[p]) # Len(ret[p])

\* C6 as the specification states it: a shape mismatch is never signalled,
\* in training (labels against rows) or in prediction (weights against
\* columns); the operation goes on to a numeric result.
C6_MismatchNeverSignalled ==
    \A p \in Proc :
        /\ (Called(p) /\ LabelMismatch(p)) => pc[p] # "raised"
        /\ (Predicted(p) /\ WeightMismatch(p)) => predStatus[p] # "raised"

\* C6 amended: logistic_reg and predict_prob validate nothing themselves, but
\* numpy signals the mismatch.  In training the first gradient computation
\* raises ValueError, before any weight update and with nothing returned,
\* exactly when the labels disagree with the rows and are not a single label;
\* a single label is broadcast over the rows and training runs on to a
\* numeric result.  In prediction a disagreement of the weights with the
\* columns always raises ValueError.
C6_MismatchSignalledByNumpy ==
    \A p \in Proc :
        /\ Attempted(p) =>
              (pc[p] = "raised" <=> (LabelMismatch(p) /\ Len(y[p]) # 1))
        /\ pc[p] = "raised" => (updates[p] = 0 /\ ret[p] = <<>> /\ stdout[p] = <<>>)
        /\ (Returned(p) /\ LabelMismatch(p)) =>
              (Len(y[p]) = 1 /\ updates[p] = max_iterations[p]
                 /\ Len(ret[p]) = NumCols(X[p]))
        /\ Predicted(p) => (predStatus[p] = "raised" <=> WeightMismatch(p))

\* a training run on labels of the wrong length has raised
C6_Witness ==
    /\ pc[1] = "raised"
    /\ LabelMismatch(1)
    /\ Len(y[1]) > 1

\* C7: a training run never changes X or y, and a prediction changes neither
\* the trained weights nor the matrix it is given, so that every prediction
\* made on a matrix has returned the same probabilities.
C7_InputsUnmodified ==
    [][\A p \in Proc :
          /\ Called(p) => (X'[p] = X[p] /\ y'[p] = y[p])
          /\ Returned(p) => (ret'[p] = ret[p] /\ theta'[p] = theta[p])
          /\ predCount'[p] # predCount[p] =>
                /\ grid'[p] \in Grids
                /\ predStatus'[p] = "ok" =>
                      probs'[p] = PredictProb(grid'[p], ret'[p])
          /\ \A e1, e2 \in predLog'[p] : e1.G = e2.G => e1.r = e2.r]_vars

\* more predictions than distinct results: one matrix was predicted twice
C7_Witness ==
    /\ Returned(1)
    /\ updates[1] >= 1
    /\ predCount[1] = MaxPredict
    /\ Cardinality(predLog[1]) < predCount[1]
    /\ Cardinality(predLog[1]) >= 2

\* C8: with the steps of two invocations interleaved in any order, each
\* invocation's counter and weights are those of its own arguments alone: it
\* makes its own max_iterations updates and returns the vector it returns
\* when run alone.
C8_Reentrant ==
    \A p \in Proc : Entered(p) =>
        /\ iterations[p] = IF pc[p] \in {"emit", "incr"} THEN updates[p] - 1
                                                         ELSE updates[p]
        /\ Len(trace[p]) = updates[p]
        /\ theta[p] = IF updates[p] = 0 THEN InitTheta(X[p]) ELSE trace[p][updates[p]]
        /\ \A k \in 1..Len(trace[p]) :
              trace[p][k] = Descend(alpha[p], X[p], y[p],
                                    IF k = 1 THEN InitTheta(X[p]) ELSE trace[p][k - 1])
        /\ Returned(p) =>
              /\ updates[p] = max_iterations[p]
              /\ ret[p] = ThetaAfter(alpha[p], X[p], y[p], max_iterations[p])

\* two invocations on different data, the second called while the first was
\* running, have both returned
C8_Witness ==
    /\ Returned(1) /\ Returned(2)
    /\ overlapped[2]
    /\ X[1] # X[2]
    /\ max_iterations[1] # max_iterations[2]
    /\ ret[1] # InitTheta(X[1])
    /\ ret[2] # InitTheta(X[2])

\* C9: the loop is left only through the test iterations == max_iterations,
\* made after the counter has been incremented from 0; with
\* max_iterations < 1 the counter is past it at every test, the call never
\* returns and the next step of the loop is always there to be taken.
C9_NeverReturnsBelowOne ==
    \A p \in Proc : (Called(p) /\ max_iterations[p] < 1) =>
        /\ pc[p] \notin {"return", "done"}
        /\ ~converged[p]
        /\ (pc[p] = "check" => iterations[p] >= 1 /\ iterations[p] > max_iterations[p])
        /\ (updates[p] < IterCap => ENABLED Run(p))

\* a call with max_iterations < 1 has made more updates than any
\* max_iterations the model gives
C9_Witness ==
    /\ max_iterations[1] < 1
    /\ updates[1] > MaxIter
    /\ pc[1] = "update"

(***************************************************************************)
(* Properties of run_bench.py.                                             *)
(***************************************************************************)
\* the repetitions that have ended, counted over all cases
EndedRuns ==
    IF caseIdx = 0 THEN 0
    ELSE (caseIdx - 1) * n_runs
         + (IF bpc \in {"default", "setenv", "optimized", "crashed"} THEN runIdx - 1
            ELSE runIdx)

=============================================================================
